---- MODULE Spec2Model ----
(***************************************************************************)
(* Chapter-generation pipeline of the Ghostwriter book-authoring app.      *)
(*                                                                         *)
(* The model follows src/App.tsx (startBookGeneration and the project      *)
(* handlers), src/services/gemini.ts (writeChapter, isFatalError) and      *)
(* src/components/ProjectEditor.tsx (auto-start effect, updateProject).    *)
(*                                                                         *)
(* One action is one JavaScript task: the code that runs between two       *)
(* awaits of an async function, or one synchronous UI handler together     *)
(* with the React effects its state update triggers.                       *)
(***************************************************************************)
EXTENDS Integers, Sequences, FiniteSets, TLC

VARIABLES
    projects,             \* App state `projects` (array of BookProject)
    activeProjectId,      \* App state `activeProjectId` (view is EDITOR iff set)
    generatingProjectId,  \* App state `generatingProjectId`
    wakeLockRef,          \* wakeLockRef.current (0 = null, else a sentinel id)
    sentinels,            \* wake-lock sentinels handed out by the platform
    released,             \* sentinels on which release() was called
    runs,                 \* the invocations of startBookGeneration
    wc,                   \* an invocation of writeChapter made on its own
    cover,                \* the cover generation the reader is awaiting
    editor,               \* ProjectEditor state: isProcessing, error, awaited operation
    uploads               \* the audio uploads of SourceInput

vars == <<projects, activeProjectId, generatingProjectId, wakeLockRef,
          sentinels, released, runs, wc, cover, editor, uploads>>

----------------------------------------------------------------------------
(* Bounds *)

MaxChapters == 3     \* longest outline / chapter list
MaxRuns == 1         \* invocations of startBookGeneration in one behaviour

(* Program constants *)

maxAttempts == 3
BackoffBaseMs == 1000

ProjectIds == {"A", "B"}
NoId == "null"
MaxUIRuns == 3       \* invocations started by the auto-start effect (SpecUI)
MaxUIChapters == 1   \* longest outline of a project of SpecUI
MaxCoverRuns == 2    \* invocations in one behaviour of SpecCover
MaxDeleteRuns == 2   \* invocations in one behaviour of SpecDelete
MaxOutline == 2      \* longest outline of SpecOutline
MaxOutlineRuns == 1  \* invocations in one behaviour of SpecOutline
MaxEditorRuns == 2   \* invocations in one behaviour of SpecEditor
MaxGenerated == 1    \* longest outline that generateOutline returns
MaxUploads == 2      \* audio uploads in one behaviour
MaxClock == 1        \* latest reading of the clock (0 = when the projects were stored)
RunIds == 1 .. (IF MaxRuns > MaxUIRuns THEN MaxRuns ELSE MaxUIRuns)

StoppedMsg == "Stopped due to API error."
FailedMsg == "Generation failed. Please retry."

----------------------------------------------------------------------------
(* Data: BookOutline, ChapterOutline, ChapterContent, BookProject *)

ChapterOutline(n) == [chapterNumber |-> n, title |-> "T"]

RECURSIVE DenseChapters(_)
DenseChapters(n) ==
    IF n = 0 THEN <<>> ELSE Append(DenseChapters(n - 1), ChapterOutline(n))

NoOutline == [present |-> FALSE, chapters |-> <<>>, coverImage |-> FALSE]
Outline(n) ==
    [present |-> TRUE, chapters |-> DenseChapters(n), coverImage |-> FALSE]

ChapterContent(n, t, c, g) ==
    [chapterNumber |-> n, title |-> t, content |-> c, isGenerating |-> g]

BookProject(id, title, outline, chapters, step) ==
    [id |-> id, title |-> title, outline |-> outline, chapters |-> chapters,
     currentStep |-> step, lastModified |-> 0, sources |-> <<>>]

(* Date.now(): a reading of the clock, later than every stored timestamp   *)
(* of `ps` unless the clock has reached its last reading                   *)
DateNow(ps) ==
    LET stamps == {ps[i].lastModified : i \in 1 .. Len(ps)} \cup {0}
        latest == CHOOSE t \in stamps : \A u \in stamps : u <= t
    IN  IF latest < MaxClock THEN latest + 1 ELSE MaxClock

(* Array.prototype.find: the index of the first element found, 0 if none *)

FindById(ps, id) ==
    IF \E i \in 1 .. Len(ps) : ps[i].id = id
    THEN CHOOSE i \in 1 .. Len(ps) :
            ps[i].id = id /\ \A j \in 1 .. (i - 1) : ps[j].id # id
    ELSE 0

FindByNumber(chapters, n) ==
    IF \E i \in 1 .. Len(chapters) : chapters[i].chapterNumber = n
    THEN CHOOSE i \in 1 .. Len(chapters) :
            /\ chapters[i].chapterNumber = n
            /\ \A j \in 1 .. (i - 1) : chapters[j].chapterNumber # n
    ELSE 0

HasProject(ps, id) == FindById(ps, id) # 0
FindProject(ps, id) == ps[FindById(ps, id)]

----------------------------------------------------------------------------
(* services/gemini.ts: errors of the generative backend and isFatalError.  *)
(* An error is its HTTP status (0 = no status property) and the set of the *)
(* substrings of its message that the code tests with includes().          *)

Markers == {"leaked", "API key", "PERMISSION_DENIED"}

Error(status, msg) == [ok |-> FALSE, text |-> "", status |-> status, msg |-> msg]
Response(text) == [ok |-> TRUE, text |-> text, status |-> 0, msg |-> {}]

BackendErrors ==
    { Error(403, {}), Error(401, {}), Error(0, {"leaked"}),
      Error(0, {"API key"}), Error(0, {"PERMISSION_DENIED"}),
      Error(429, {}), Error(0, {}) }

Includes(msg, marker) == marker \in msg

(* isFatalError as it would be without the 401 status *)
isFatalErrorNo401(error) ==
    IF error.status = 403 THEN TRUE
    ELSE IF Includes(error.msg, "leaked") \/ Includes(error.msg, "API key")
            \/ Includes(error.msg, "PERMISSION_DENIED") THEN TRUE
    ELSE FALSE

isFatalError(error) ==
    IF error.status = 403 \/ error.status = 401 THEN TRUE
    ELSE IF Includes(error.msg, "leaked") \/ Includes(error.msg, "API key")
            \/ Includes(error.msg, "PERMISSION_DENIED") THEN TRUE
    ELSE FALSE

(* new Error(`Failed to write chapter ${n}`): no status, no marker *)
ExhaustedError == Error(0, {})

(* 1000 * Math.pow(2, attempt) *)
RECURSIVE Pow2(_)
Pow2(n) == IF n = 0 THEN 1 ELSE 2 * Pow2(n - 1)
(* BackoffDelay as it would be with the exponent counted from zero *)
BackoffDelayFromZero(attempt) == BackoffBaseMs * Pow2(attempt - 1)

BackoffDelay(attempt) == BackoffBaseMs * Pow2(attempt)

(* startBookGeneration's own classification in its catch block *)
PipelineIsFatal(e) ==
    Includes(e.msg, "leaked") \/ Includes(e.msg, "PERMISSION_DENIED")
        \/ e.status = 403

(* The text the backend produces for an invocation: tagged by the run so   *)
(* that a rewritten chapter is distinguishable from the stored one.        *)
RunText(r) == "v" \o ToString(r)
PriorText == "v0"

WritingStyles ==
    {"standard", "literary", "humorous", "technical", "simple", "sarcastic"}

----------------------------------------------------------------------------
(* services/gemini.ts: writeChapter.  A call is at its backend request, in *)
(* its backoff sleep, or over (returned a text / thrown an error).         *)
(* requests and sleeps count what the call has done so far.                *)

NoCall ==
    [pc |-> "none", chapter |-> 0, style |-> "standard", attempt |-> 0,
     requests |-> 0, sleeps |-> 0, sleepMs |-> 0, value |-> Response("")]

(* gemini.ts 158-220: the call up to its first `await generateContent` *)
writeChapter(chapterNumber, style) ==
    [NoCall EXCEPT !.pc = "request", !.chapter = chapterNumber,
                   !.style = style, !.requests = 1]

(* writeChapterSettle as it would be with `attempt > maxAttempts` *)
writeChapterSettleOffByOne(call, res) ==
    IF res.ok
    THEN [call EXCEPT !.pc = "returned", !.value = Response(res.text)]
    ELSE IF isFatalError(res)
    THEN [call EXCEPT !.pc = "thrown", !.value = res]
    ELSE IF call.attempt + 1 > maxAttempts
    THEN [call EXCEPT !.pc = "thrown", !.attempt = @ + 1,
                      !.value = ExhaustedError]
    ELSE [call EXCEPT !.pc = "sleep", !.attempt = @ + 1, !.sleeps = @ + 1,
                      !.sleepMs = BackoffDelay(call.attempt + 1),
                      !.value = res]

(* gemini.ts 221-236: the awaited request settles with `res` *)
writeChapterSettle(call, res) ==
    IF res.ok
    THEN [call EXCEPT !.pc = "returned", !.value = Response(res.text)]
    ELSE IF isFatalError(res)
    THEN [call EXCEPT !.pc = "thrown", !.value = res]
    ELSE IF call.attempt + 1 >= maxAttempts
    THEN [call EXCEPT !.pc = "thrown", !.attempt = @ + 1,
                      !.value = ExhaustedError]
    ELSE [call EXCEPT !.pc = "sleep", !.attempt = @ + 1, !.sleeps = @ + 1,
                      !.sleepMs = BackoffDelay(call.attempt + 1),
                      !.value = res]      \* the error that was caught

(* gemini.ts 235, 215-220: the timer fires and the loop sends a request *)
writeChapterWake(call) ==
    [call EXCEPT !.pc = "request", !.requests = @ + 1]

(* What the backend can answer to a request *)
BackendResults(text) == {Response(text), Response("")} \cup BackendErrors

----------------------------------------------------------------------------
(* App.tsx: one invocation of startBookGeneration *)

IdleRun ==
    [pc |-> "idle", projectId |-> NoId,
     project |-> BookProject(NoId, "", NoOutline, <<>>, 0),   \* `project`
     currentChapters |-> <<>>, idx |-> 0, hasFatalError |-> FALSE,
     call |-> NoCall,               \* the writeChapter call being awaited
     \* a record of what the invocation did
     log |-> <<>>,                  \* the writeChapter calls and how they ended
     alerts |-> 0,                  \* alert() calls
     sentinel |-> 0,                \* the wake-lock sentinel it was granted
     releasing |-> 0,               \* the sentinel whose release() it awaits
     titleAtDispatch |-> "",        \* stored title when the call was made
     chapterAtDispatch |-> ChapterOutline(0)]   \* the chapter outline passed

LoopActive(run) == run.pc \in {"wakelock", "writing"}

(* IsSkipped as it would be without the resumption test of 153-156 *)
IsSkippedNever(currentChapters, n) == FALSE

(* App.tsx 153-156: the chapter is skipped *)
IsSkipped(currentChapters, n) ==
    LET i == FindByNumber(currentChapters, n)
    IN  i # 0 /\ currentChapters[i].content # ""
              /\ ~currentChapters[i].isGenerating

(* LoopFrom as it would be without `if (hasFatalError) break` *)
RECURSIVE LoopFromNoBreak(_, _)
LoopFromNoBreak(run, i) ==
    IF i > Len(run.project.outline.chapters) THEN 0
    ELSE IF IsSkipped(run.currentChapters,
                      run.project.outline.chapters[i].chapterNumber)
         THEN LoopFromNoBreak(run, i + 1)
    ELSE i

(* LoopFrom as it would be if the loop read the stored outline's length *)
RECURSIVE LoopFromStored(_, _)
LoopFromStored(run, i) ==
    IF \/ i > Len(run.project.outline.chapters)
       \/ /\ HasProject(projects, run.projectId)
          /\ i > Len(FindProject(projects, run.projectId).outline.chapters)
    THEN 0
    ELSE IF IsSkipped(run.currentChapters,
                      run.project.outline.chapters[i].chapterNumber)
         THEN LoopFromStored(run, i + 1)
    ELSE IF run.hasFatalError THEN 0
    ELSE i

(* App.tsx 151-158: the index of the next outline chapter that is handed   *)
(* to writeChapter, 0 when the loop is left                                *)
RECURSIVE LoopFrom(_, _)
LoopFrom(run, i) ==
    IF i > Len(run.project.outline.chapters) THEN 0
    ELSE IF IsSkipped(run.currentChapters,
                      run.project.outline.chapters[i].chapterNumber)
         THEN LoopFrom(run, i + 1)
    ELSE IF run.hasFatalError THEN 0
    ELSE i

CurrentNumber(run) == run.project.outline.chapters[run.idx].chapterNumber

(* handleUpdateProject as it would be if it added a project it cannot find *)
handleUpdateProjectOrAdd(ps, updatedProject) ==
    IF \E i \in 1 .. Len(ps) : ps[i].id = updatedProject.id
    THEN [i \in 1 .. Len(ps) |->
            IF ps[i].id = updatedProject.id THEN updatedProject ELSE ps[i]]
    ELSE Append(ps, updatedProject)

(* App.tsx 274-276 *)
handleUpdateProject(ps, updatedProject) ==
    [i \in 1 .. Len(ps) |->
        IF ps[i].id = updatedProject.id THEN updatedProject ELSE ps[i]]

(* SetChapter as it would be without the chapterNumber test *)
SetChapterEvery(chapters, n, content) ==
    [i \in 1 .. Len(chapters) |->
        [chapters[i] EXCEPT !.content = content, !.isGenerating = FALSE]]

(* App.tsx 171-175, 181-185, 198-202 *)
SetChapter(chapters, n, content) ==
    [i \in 1 .. Len(chapters) |->
        IF chapters[i].chapterNumber = n
        THEN [chapters[i] EXCEPT !.content = content, !.isGenerating = FALSE]
        ELSE chapters[i]]

(* App.tsx 168-178: the persist of a written chapter *)
PersistChapter(ps, projectId, n, content) ==
    [i \in 1 .. Len(ps) |->
        IF ps[i].id # projectId THEN ps[i]
        ELSE [ps[i] EXCEPT !.chapters = SetChapter(@, n, content),
                           !.lastModified = DateNow(ps)]]

(* App.tsx 196-204: the persist of a failed chapter *)
PersistFailure(ps, projectId, n, content) ==
    [i \in 1 .. Len(ps) |->
        IF ps[i].id # projectId THEN ps[i]
        ELSE [ps[i] EXCEPT !.chapters = SetChapter(@, n, content)]]

(* App.tsx 137-142 *)
InitialChapters(project) ==
    IF Len(project.chapters) > 0 THEN project.chapters
    ELSE [i \in 1 .. Len(project.outline.chapters) |->
            ChapterContent(project.outline.chapters[i].chapterNumber,
                           project.outline.chapters[i].title, "", TRUE)]

(* App.tsx 200 *)
FailureContent(isFatal) == IF isFatal THEN StoppedMsg ELSE FailedMsg

LogCall(log, n) ==
    Append(log, [chapter |-> n, pc |-> "pending", value |-> Response("")])
LogEnd(log, call) ==
    [log EXCEPT ![Len(log)] = [chapter |-> call.chapter, pc |-> call.pc,
                               value |-> call.value]]

(* unnamed/part_000 270-288: no cover generation is awaited *)
NoCover == [pc |-> "none", project |-> BookProject(NoId, "", NoOutline, <<>>, 0)]

(* ProjectEditor.tsx 41-43, 72-114: the editor's isProcessing and error    *)
(* state and the operation (outline or cover generation) it awaits, with   *)
(* the `project` of the render in which the operation was started.         *)
(* `live`: the editor that started the operation is still mounted.         *)
NoEditor ==
    [isProcessing |-> FALSE, error |-> FALSE, pc |-> "none", live |-> FALSE,
     project |-> BookProject(NoId, "", NoOutline, <<>>, 0)]

(* The editor is unmounted: its state is gone, the operation goes on *)
Unmounted(ed) ==
    [ed EXCEPT !.isProcessing = FALSE, !.error = FALSE, !.live = FALSE]

(* SourceInput.tsx 53-99: an audio upload with the `sources` and the       *)
(* onUpdate callback (and so the `project`) of the render of the click     *)
UploadIds == 1 .. MaxUploads
IdleUpload ==
    [pc |-> "idle", id |-> 0,
     project |-> BookProject(NoId, "", NoOutline, <<>>, 0)]

(* The rest of the loop up to the next await: either the next writeChapter *)
(* call with its first backend request, or the end of the function         *)
(* (App.tsx 208-209 and releaseWakeLock up to its await).  `ps` and `ref`  *)
(* are the project collection and wakeLockRef.current after this task.     *)
Continue(r, run, from, ps, ref) ==
    LET i == LoopFrom(run, from) IN
    IF i # 0
    THEN LET n == run.project.outline.chapters[i].chapterNumber IN
         /\ runs' = [runs EXCEPT ![r] =
                [run EXCEPT !.pc = "writing", !.idx = i,
                            !.call = writeChapter(n, "standard"),
                            !.log = LogCall(@, n),
                            !.titleAtDispatch =
                                IF HasProject(ps, run.projectId)
                                THEN FindProject(ps, run.projectId).title
                                ELSE "",
                            !.chapterAtDispatch = run.project.outline.chapters[i]]]
         /\ UNCHANGED generatingProjectId
    ELSE /\ generatingProjectId' = NoId
         /\ runs' = [runs EXCEPT ![r] =
                IF ref # 0
                THEN [run EXCEPT !.pc = "releasing", !.idx = 0,
                                 !.call = NoCall, !.releasing = ref]
                ELSE [run EXCEPT !.pc = "done", !.idx = 0, !.call = NoCall]]

FreeRun(r) == runs[r].pc = "idle" /\ \A q \in RunIds : q < r => runs[q].pc # "idle"

(* App.tsx 129-134: the call up to `await requestWakeLock()`, made with    *)
(* the project collection `ps` of the render that issued the call.         *)
(* `bound` caps the number of invocations in one behaviour.                *)
startBookGeneration(r, ps, projectId, bound) ==
    /\ FreeRun(r)
    /\ r <= bound
    /\ HasProject(ps, projectId)
    /\ FindProject(ps, projectId).outline.present
    /\ generatingProjectId' = projectId
    /\ runs' = [runs EXCEPT ![r] =
            [IdleRun EXCEPT !.pc = "wakelock", !.projectId = projectId,
                            !.project = FindProject(ps, projectId)]]

(* App.tsx 108-116 and 136-165: the wake-lock request settles (granted, or *)
(* rejected / not supported), the initial chapter list is written and the  *)
(* loop runs up to its first await.                                        *)
WakeLockSettles(r) ==
    /\ runs[r].pc = "wakelock"
    /\ \E granted \in BOOLEAN :
        LET run == runs[r]
            id == Cardinality(sentinels) + 1
            ref == IF granted THEN id ELSE wakeLockRef
            currentChapters == InitialChapters(run.project)
            ps == handleUpdateProject(projects,
                    [run.project EXCEPT !.chapters = currentChapters])
            run2 == [run EXCEPT !.currentChapters = currentChapters,
                                !.sentinel = IF granted THEN id ELSE 0]
        IN  /\ wakeLockRef' = ref
            /\ sentinels' = IF granted THEN sentinels \cup {id} ELSE sentinels
            /\ projects' = ps
            /\ Continue(r, run2, 1, ps, ref)
    /\ UNCHANGED <<activeProjectId, released, wc, cover, editor, uploads>>

(* App.tsx 165-185: writeChapter returned `content` *)
ChapterWritten(r, run, content) ==
    LET n == CurrentNumber(run)
        ps == PersistChapter(projects, run.projectId, n, content)
        run2 == [run EXCEPT !.currentChapters = SetChapter(@, n, content)]
    IN  /\ projects' = ps
        /\ Continue(r, run2, run.idx + 1, ps, wakeLockRef)

(* App.tsx 187-205: writeChapter threw `e` *)
ChapterFailed(r, run, e) ==
    LET isFatal == PipelineIsFatal(e)
        ps == PersistFailure(projects, run.projectId, CurrentNumber(run),
                             FailureContent(isFatal))
        run2 == [run EXCEPT !.hasFatalError = IF isFatal THEN TRUE ELSE @,
                            !.alerts = IF isFatal THEN @ + 1 ELSE @]
    IN  /\ projects' = ps
        /\ Continue(r, run2, run.idx + 1, ps, wakeLockRef)

(* gemini.ts 215-236 and App.tsx 165-205: the backend answers the request  *)
(* of the awaited writeChapter call                                        *)
BackendSettles(r) ==
    /\ runs[r].pc = "writing"
    /\ runs[r].call.pc = "request"
    /\ \E res \in BackendResults(RunText(r)) :
        LET call == writeChapterSettle(runs[r].call, res)
            run == [runs[r] EXCEPT !.call = call,
                        !.log = IF call.pc = "sleep" THEN @ ELSE LogEnd(@, call)]
        IN  CASE call.pc = "returned" -> ChapterWritten(r, run, call.value.text)
              [] call.pc = "thrown" -> ChapterFailed(r, run, call.value)
              [] OTHER -> /\ runs' = [runs EXCEPT ![r] = run]
                          /\ UNCHANGED <<projects, generatingProjectId>>
    /\ UNCHANGED <<activeProjectId, wakeLockRef, sentinels, released, wc, cover, editor, uploads>>

(* gemini.ts 235: the backoff timer of the awaited call fires *)
BackoffElapses(r) ==
    /\ runs[r].pc = "writing"
    /\ runs[r].call.pc = "sleep"
    /\ runs' = [runs EXCEPT ![r] = [@ EXCEPT !.call = writeChapterWake(@)]]
    /\ UNCHANGED <<projects, activeProjectId, generatingProjectId, wakeLockRef,
                   sentinels, released, wc, cover, editor, uploads>>

(* App.tsx 118-127: sentinel.release() settles *)
ReleaseSettles(r) ==
    /\ runs[r].pc = "releasing"
    /\ \E ok \in BOOLEAN :
        /\ wakeLockRef' = IF ok THEN 0 ELSE wakeLockRef
        /\ released' = IF ok THEN released \cup {runs[r].releasing} ELSE released
    /\ runs' = [runs EXCEPT ![r] = [@ EXCEPT !.pc = "done"]]
    /\ UNCHANGED <<projects, activeProjectId, generatingProjectId, sentinels, wc, cover, editor, uploads>>

----------------------------------------------------------------------------
(* The user interface: Dashboard and ProjectEditor *)

Titles == {"Untitled Manuscript", "My Book"}

(* AutoStartCondition as it would be without the test of isProcessing *)
AutoStartConditionNoProcessing(project, generating) ==
    /\ project.currentStep = 2
    /\ project.outline.present
    /\ Len(project.chapters) = 0
    /\ ~(generating = project.id)
    /\ ~editor.error

(* ProjectEditor.tsx 50-56: the condition of the auto-start effect, for    *)
(* the project shown by the editor                                         *)
AutoStartCondition(project, generating) ==
    /\ project.currentStep = 2
    /\ project.outline.present
    /\ Len(project.chapters) = 0
    /\ ~editor.isProcessing
    /\ ~(generating = project.id)          \* !isGeneratingGlobal
    /\ ~editor.error

(* The state update of a UI handler followed by the effects of the render  *)
(* it causes.  `trigger`: the editor was mounted, or project.currentStep   *)
(* or project.outline changed (the dependency list of the effect).         *)
Render(ps, active, trigger, bound) ==
    /\ projects' = ps
    /\ activeProjectId' = active
    /\ IF /\ trigger
          /\ active # NoId
          /\ HasProject(ps, active)
          /\ AutoStartCondition(FindProject(ps, active), generatingProjectId)
       THEN \E r \in RunIds : startBookGeneration(r, ps, active, bound)
       ELSE UNCHANGED <<generatingProjectId, runs>>
    /\ UNCHANGED <<wakeLockRef, sentinels, released, wc>>

(* ProjectEditor.tsx 58-64 *)
updateProject(project, title, step) ==
    handleUpdateProject(projects,
        [project EXCEPT !.title = title, !.currentStep = step,
                        !.lastModified = DateNow(projects)])

ActiveProject == FindProject(projects, activeProjectId)
EditorOpen == activeProjectId # NoId /\ HasProject(projects, activeProjectId)

(* App.tsx 290-294: a project card is clicked on the dashboard *)
handleSelectProject(p, bound) ==
    /\ activeProjectId = NoId
    /\ HasProject(projects, p)
    /\ Render(projects, p, TRUE, bound)
    /\ UNCHANGED <<cover, editor, uploads>>

(* App.tsx 296-300 *)
handleBackToDashboard ==
    /\ activeProjectId # NoId
    /\ Render(projects, NoId, FALSE, 0)
    /\ editor' = Unmounted(editor)
    /\ UNCHANGED <<cover, uploads>>

(* App.tsx 281: prev.filter(p => p.id !== id) *)
RECURSIVE FilterOut(_, _)
FilterOut(ps, id) ==
    IF Len(ps) = 0 THEN <<>>
    ELSE IF Head(ps).id = id THEN FilterOut(Tail(ps), id)
    ELSE <<Head(ps)>> \o FilterOut(Tail(ps), id)

(* App.tsx 278-288: the delete button of a project card on the dashboard   *)
(* (SourceInput.tsx 753), confirmed by the user                            *)
handleDeleteProject(id) ==
    /\ activeProjectId = NoId
    /\ HasProject(projects, id)
    /\ projects' = FilterOut(projects, id)
    /\ activeProjectId' = IF activeProjectId = id THEN NoId ELSE activeProjectId
    /\ UNCHANGED <<generatingProjectId, wakeLockRef, sentinels, released, runs,
                   wc, cover, editor, uploads>>

(* ProjectEditor.tsx 66-70 *)
handleTitleBlur(localTitle) ==
    /\ EditorOpen
    /\ localTitle # ActiveProject.title
    /\ Render(updateProject(ActiveProject, localTitle, ActiveProject.currentStep),
              activeProjectId, FALSE, 0)
    /\ UNCHANGED <<cover, editor, uploads>>

(* ProjectEditor.tsx 241, 252-254: "Start Writing Manuscript" *)
StartWriting(bound) ==
    /\ EditorOpen
    /\ ActiveProject.currentStep = 1
    /\ ActiveProject.outline.present
    /\ Render(updateProject(ActiveProject, ActiveProject.title, 2),
              activeProjectId, TRUE, bound)
    /\ UNCHANGED <<cover, editor, uploads>>

(* A text note among the sources of a project (SourceInput.tsx 302-311) *)
TextNote == [id |-> 0, content |-> TRUE, transcription |-> "", isProcessing |-> FALSE]

(* OutlineBuilder.tsx 59-72: the title typed into the edit form is saved;  *)
(* `index` counts from 1                                                   *)
saveChapter(outline, index, title) ==
    [outline EXCEPT !.chapters[index].title = title]

(* OutlineBuilder.tsx 74-86 *)
addChapter(outline) ==
    LET nextNum == Len(outline.chapters) + 1
        newChapter == [chapterNumber |-> nextNum, title |-> "New Chapter"]
    IN  [outline EXCEPT !.chapters = Append(@, newChapter)]

(* deleteChapter as it would be without the re-indexing of 92-93 *)
deleteChapterKeepNumbers(outline, index) ==
    LET old == outline.chapters
        newChapters == [i \in 1 .. (Len(old) - 1) |->
                            IF i < index THEN old[i] ELSE old[i + 1]]
    IN  [outline EXCEPT !.chapters = newChapters]

(* OutlineBuilder.tsx 88-96, the deletion confirmed; `index` counts from 1 *)
deleteChapter(outline, index) ==
    LET old == outline.chapters
        newChapters == [i \in 1 .. (Len(old) - 1) |->
                            IF i < index THEN old[i] ELSE old[i + 1]]
        reindexed == [i \in 1 .. Len(newChapters) |->
                            [newChapters[i] EXCEPT !.chapterNumber = i]]
    IN  [outline EXCEPT !.chapters = reindexed]

(* ProjectEditor.tsx 116-118 and 58-64 *)
handleUpdateOutline(updatedOutline) ==
    handleUpdateProject(projects,
        [ActiveProject EXCEPT !.outline = updatedOutline,
                              !.lastModified = DateNow(projects)])

(* The outline builder is shown (ProjectEditor.tsx 238-246) *)
OutlineBuilderShown ==
    EditorOpen /\ ActiveProject.currentStep = 1 /\ ActiveProject.outline.present

AddChapter(bound) ==
    /\ OutlineBuilderShown
    /\ Len(ActiveProject.outline.chapters) < MaxOutline
    /\ Render(handleUpdateOutline(addChapter(ActiveProject.outline)),
              activeProjectId, TRUE, bound)
    /\ UNCHANGED <<cover, editor, uploads>>

DeleteChapter(index, bound) ==
    /\ OutlineBuilderShown
    /\ index \in 1 .. Len(ActiveProject.outline.chapters)
    /\ Render(handleUpdateOutline(deleteChapter(ActiveProject.outline, index)),
              activeProjectId, TRUE, bound)
    /\ UNCHANGED <<cover, editor, uploads>>

SaveChapter(index, title, bound) ==
    /\ OutlineBuilderShown
    /\ index \in 1 .. Len(ActiveProject.outline.chapters)
    /\ ActiveProject.outline.chapters[index].title # title
    /\ Render(handleUpdateOutline(saveChapter(ActiveProject.outline, index, title)),
              activeProjectId, TRUE, bound)
    /\ UNCHANGED <<cover, editor, uploads>>

(* ProjectEditor.tsx 120-129, 156-166: a step of the progress bar is       *)
(* clicked; only the steps up to the current one can be clicked            *)
navigateStep(step, bound) ==
    /\ EditorOpen
    /\ step < ActiveProject.currentStep
    /\ Render(updateProject(ActiveProject, ActiveProject.title, step),
              activeProjectId, TRUE, bound)
    /\ UNCHANGED <<cover, editor, uploads>>

(* What generateOutline can return (gemini.ts: JSON.parse of the response) *)
GeneratedTitle == "Generated Title"
GeneratedOutlines == {Outline(n) : n \in 1 .. MaxGenerated}

(* ProjectEditor.tsx 72-76: "Generate Structure" at the sources step       *)
(* (228-235) or "Regenerate" in the outline builder, up to the await.      *)
(* Of the `project` of this render the continuation uses the fields it     *)
(* does not overwrite (78-83); the others are not kept.                    *)
handleCreateOutline ==
    /\ EditorOpen
    /\ \/ /\ ActiveProject.currentStep = 0
          /\ ~editor.isProcessing
          /\ \A i \in 1 .. Len(ActiveProject.sources) :
                ~ActiveProject.sources[i].isProcessing
       \/ OutlineBuilderShown
    /\ Len(ActiveProject.sources) # 0
    /\ editor.pc = "none"
    /\ editor' = [isProcessing |-> TRUE, error |-> FALSE, pc |-> "outline",
                  live |-> TRUE,
                  project |-> [ActiveProject EXCEPT !.outline = NoOutline,
                                                    !.chapters = <<>>,
                                                    !.currentStep = 1,
                                                    !.title = GeneratedTitle,
                                                    !.lastModified = 0]]
    /\ UNCHANGED <<projects, activeProjectId, generatingProjectId, wakeLockRef,
                   sentinels, released, runs, wc, cover, uploads>>

(* The state of the editor when the operation it awaited is over: the      *)
(* setError / setIsProcessing calls act on the editor that started it      *)
Settled(ed, failed) ==
    IF ed.live
    THEN [NoEditor EXCEPT !.error = IF failed THEN TRUE ELSE ed.error]
    ELSE [NoEditor EXCEPT !.error = ed.error, !.isProcessing = ed.isProcessing]

(* ProjectEditor.tsx 77-89: generateOutline settles *)
CreateOutlineSettles(bound) ==
    /\ editor.pc = "outline"
    /\ \/ \E generatedOutline \in GeneratedOutlines :
            /\ Render(handleUpdateProject(projects,
                        [editor.project EXCEPT
                            !.outline = generatedOutline,
                            !.chapters = <<>>,
                            !.currentStep = 1,
                            !.title = GeneratedTitle,
                            !.lastModified = DateNow(projects)]),
                      activeProjectId, activeProjectId = editor.project.id, bound)
            /\ editor' = Settled(editor, FALSE)
       \/ /\ editor' = Settled(editor, TRUE)
          /\ UNCHANGED <<projects, activeProjectId, generatingProjectId,
                         wakeLockRef, sentinels, released, runs, wc>>
    /\ UNCHANGED <<cover, uploads>>

(* ProjectEditor.tsx 92-95: "Generate cover" in the outline builder *)
handleGenerateCoverOutline ==
    /\ OutlineBuilderShown
    /\ editor.pc = "none"
    /\ editor' = [isProcessing |-> TRUE, error |-> FALSE, pc |-> "cover",
                  live |-> TRUE, project |-> ActiveProject]
    /\ UNCHANGED <<projects, activeProjectId, generatingProjectId, wakeLockRef,
                   sentinels, released, runs, wc, cover, uploads>>

(* ProjectEditor.tsx 96-113: generateImage settles *)
GenerateCoverOutlineSettles(bound) ==
    /\ editor.pc = "cover"
    /\ \/ /\ Render(handleUpdateProject(projects,
                        [editor.project EXCEPT
                            !.outline.coverImage = TRUE,
                            !.lastModified = DateNow(projects)]),
                      activeProjectId, activeProjectId = editor.project.id, bound)
          /\ editor' = Settled(editor, FALSE)
       \/ /\ editor' = Settled(editor, TRUE)
          /\ UNCHANGED <<projects, activeProjectId, generatingProjectId,
                         wakeLockRef, sentinels, released, runs, wc>>
    /\ UNCHANGED <<cover, uploads>>

(* ProjectEditor.tsx 184-190: "Dismiss" on the error banner *)
DismissError ==
    /\ EditorOpen
    /\ editor.error
    /\ editor' = [editor EXCEPT !.error = FALSE]
    /\ UNCHANGED <<projects, activeProjectId, generatingProjectId, wakeLockRef,
                   sentinels, released, runs, wc, cover, uploads>>

(* SourceInput.tsx 61-68: the source of an audio upload; `content`: the   *)
(* audio data was read into it                                             *)
AudioSource(id) ==
    [id |-> id, content |-> FALSE, transcription |-> "", isProcessing |-> TRUE]

(* ProjectEditor.tsx 204-207 and 58-64: onUpdate, as the callback of the   *)
(* render with `project`                                                   *)
onUpdate(project, newSources) ==
    handleUpdateProject(projects,
        [project EXCEPT !.sources = newSources,
                        !.lastModified = DateNow(projects)])

(* The source step is shown (ProjectEditor.tsx 194-207) *)
SourceInputShown == EditorOpen /\ ActiveProject.currentStep = 0

FreeUpload(u) ==
    uploads[u].pc = "idle" /\ \A v \in UploadIds : v < u => uploads[v].pc # "idle"

(* SourceInput.tsx 53-70, 97-98: an audio file is chosen; up to the read   *)
handleAudioUpload(u) ==
    /\ SourceInputShown
    /\ FreeUpload(u)
    /\ uploads' = [uploads EXCEPT ![u] =
            [pc |-> "reading", id |-> u, project |-> ActiveProject]]
    /\ Render(onUpdate(ActiveProject, Append(ActiveProject.sources, AudioSource(u))),
              activeProjectId, FALSE, 0)
    /\ UNCHANGED <<cover, editor>>

(* SourceInput.tsx 73, 76: [...sources, { ...newSource, content }] *)
sourcesWithContent(upload) ==
    Append(upload.project.sources, [AudioSource(upload.id) EXCEPT !.content = TRUE])

(* SourceInput.tsx 72-77: reader.onload, up to `await transcribeAudio`;    *)
(* 92-95: reader.onerror                                                   *)
FileReaderSettles(u) ==
    /\ uploads[u].pc = "reading"
    /\ \/ /\ uploads' = [uploads EXCEPT ![u].pc = "transcribing"]
          /\ Render(onUpdate(uploads[u].project, sourcesWithContent(uploads[u])),
                    activeProjectId, FALSE, 0)
       \/ /\ uploads' = [uploads EXCEPT ![u].pc = "done"]
          /\ Render(onUpdate(uploads[u].project, uploads[u].project.sources),
                    activeProjectId, FALSE, 0)
    /\ UNCHANGED <<cover, editor>>

(* SourceInput.tsx 81-83, 86-88: the source of the upload gets its         *)
(* transcription, the others are as they are in `sources`                  *)
WithTranscription(sources, id, transcription) ==
    [i \in 1 .. Len(sources) |->
        IF sources[i].id = id
        THEN [sources[i] EXCEPT !.transcription = transcription,
                                !.isProcessing = FALSE]
        ELSE sources[i]]

(* SourceInput.tsx 79-90: transcribeAudio settles *)
TranscriptionSettles(u) ==
    /\ uploads[u].pc = "transcribing"
    /\ uploads' = [uploads EXCEPT ![u].pc = "done"]
    /\ \E transcription \in {"transcribed", "Error transcribing audio."} :
          Render(onUpdate(uploads[u].project,
                          WithTranscription(sourcesWithContent(uploads[u]),
                                            uploads[u].id, transcription)),
                 activeProjectId, FALSE, 0)
    /\ UNCHANGED <<cover, editor>>

(* SourceInput.tsx 328-330, with sources.filter(s => s.id !== id) *)
RECURSIVE removeSource(_, _)
removeSource(sources, id) ==
    IF Len(sources) = 0 THEN <<>>
    ELSE IF Head(sources).id = id THEN removeSource(Tail(sources), id)
    ELSE <<Head(sources)>> \o removeSource(Tail(sources), id)

RemoveSource(id) ==
    /\ SourceInputShown
    /\ \E i \in 1 .. Len(ActiveProject.sources) : ActiveProject.sources[i].id = id
    /\ Render(onUpdate(ActiveProject, removeSource(ActiveProject.sources, id)),
              activeProjectId, FALSE, 0)
    /\ UNCHANGED <<cover, editor, uploads>>

UploadStep(u) == FileReaderSettles(u) \/ TranscriptionSettles(u)

(* unnamed/part_000 270-278: "Generate cover" in the reader, shown at the  *)
(* manuscript step (ProjectEditor.tsx 265-277).  The handler and the       *)
(* onUpdateOutline callback it holds belong to the render of the click:    *)
(* the callback spreads the `project` of that render.                      *)
handleGenerateCover ==
    /\ EditorOpen
    /\ ActiveProject.currentStep = 2
    /\ ActiveProject.outline.present
    /\ cover.pc = "none"
    /\ cover' = [pc |-> "pending", project |-> ActiveProject]
    /\ UNCHANGED <<projects, activeProjectId, generatingProjectId, wakeLockRef,
                   sentinels, released, runs, wc, editor, uploads>>

(* unnamed/part_000 278-287, ProjectEditor.tsx 116-118 and 58-64:          *)
(* generateImage settles; on success the outline with the cover is written *)
(* through updateProject, on failure an alert is shown.                    *)
GenerateCoverSettles(bound) ==
    /\ cover.pc = "pending"
    /\ cover' = NoCover
    /\ UNCHANGED <<editor, uploads>>
    /\ \E ok \in BOOLEAN :
          IF ok
          THEN Render(handleUpdateProject(projects,
                        [cover.project EXCEPT !.outline.coverImage = TRUE,
                                              !.lastModified = DateNow(projects)]),
                      activeProjectId, activeProjectId = cover.project.id, bound)
          ELSE UNCHANGED <<projects, activeProjectId, generatingProjectId,
                           wakeLockRef, sentinels, released, runs, wc>>

(* App.tsx 325: the onStartGeneration callback of the open editor is called *)
onStartGeneration(bound) ==
    /\ EditorOpen
    /\ \E r \in RunIds : startBookGeneration(r, projects, activeProjectId, bound)
    /\ UNCHANGED <<projects, activeProjectId, wakeLockRef, sentinels, released, wc, cover, editor, uploads>>

----------------------------------------------------------------------------
(* Initial states: the projects loaded from localStorage (App.tsx 44-67)   *)

ChapterStates ==
    { [content |-> PriorText, isGenerating |-> FALSE],    \* written by an earlier run
      [content |-> "", isGenerating |-> TRUE],            \* that run was interrupted
      [content |-> FailedMsg, isGenerating |-> FALSE] }   \* that run failed on it

PersistedChapters ==
    UNION { { [i \in 1 .. k |->
                 ChapterContent(i, "T", f[i].content, f[i].isGenerating)] :
              f \in [1 .. k -> ChapterStates] } : k \in 0 .. MaxChapters }

(* A project with an outline, as an earlier session left it: the outline   *)
(* may have been edited after its chapters were written.                   *)
PersistedProjects(id) ==
    { BookProject(id, "Untitled Manuscript", Outline(n), chapters, 1) :
            n \in 1 .. MaxChapters, chapters \in PersistedChapters }

FreshProjects(id) ==
    { BookProject(id, "Untitled Manuscript", Outline(n), <<>>, 1) :
            n \in 1 .. MaxUIChapters }

(* A project at the manuscript step whose outline chapters were all        *)
(* deleted (OutlineBuilder.tsx 88-96): a run on it has nothing to write.   *)
EmptiedProject(id) ==
    BookProject(id, "Untitled Manuscript", Outline(0), <<>>, 2)

InitApp ==
    /\ generatingProjectId = NoId
    /\ wakeLockRef = 0
    /\ sentinels = {}
    /\ released = {}
    /\ runs = [r \in RunIds |-> IdleRun]
    /\ cover = NoCover
    /\ editor = NoEditor
    /\ uploads = [u \in UploadIds |-> IdleUpload]

RunStep(r) ==
    \/ WakeLockSettles(r)
    \/ BackendSettles(r)
    \/ BackoffElapses(r)
    \/ ReleaseSettles(r)

(* startBookGeneration called on a stored project: the editor is open on   *)
(* project A (restored session, App.tsx 54-63) at its outline step.        *)
Init ==
    /\ InitApp
    /\ wc = NoCall
    /\ activeProjectId = "A"
    /\ \E a \in PersistedProjects("A") :
          projects = <<a, BookProject("B", "Untitled Manuscript", NoOutline, <<>>, 0)>>

Next ==
    \/ \E t \in Titles : handleTitleBlur(t)
    \/ onStartGeneration(MaxRuns)
    \/ \E r \in RunIds : RunStep(r)

Spec == Init /\ [][Next]_vars

(* The application driven by its user interface alone: generation is only  *)
(* started by the auto-start effect.                                       *)
InitUI ==
    /\ InitApp
    /\ wc = NoCall
    /\ activeProjectId = NoId
    /\ \E a \in FreshProjects("A") : projects = <<a, EmptiedProject("B")>>

NextUI ==
    \/ \E p \in ProjectIds : handleSelectProject(p, MaxUIRuns)
    \/ handleBackToDashboard
    \/ StartWriting(MaxUIRuns)
    \/ \E r \in RunIds : RunStep(r)

SpecUI == InitUI /\ [][NextUI]_vars

(* SpecUI with the backend answering every request, timers firing and     *)
(* wake-lock requests and releases settling                                *)
SpecUIFair ==
    /\ InitUI
    /\ [][NextUI]_vars
    /\ \A r \in RunIds : WF_vars(RunStep(r))

(* The application reloaded after it was torn down in the middle of a run  *)
(* for project A (App.tsx 44-63): the stored chapter list of A is the one  *)
(* the run had written, with a chapter still flagged as generating.        *)
InterruptedProjects(id) ==
    { BookProject(id, "Untitled Manuscript", Outline(Len(chapters)), chapters, 2) :
        chapters \in { c \in PersistedChapters :
                         /\ Len(c) \in 1 .. MaxUIChapters
                         /\ \E i \in 1 .. Len(c) : c[i].isGenerating } }

InitReload ==
    /\ InitApp
    /\ wc = NoCall
    /\ activeProjectId \in {NoId, "A"}
    /\ \E a \in InterruptedProjects("A"), b \in FreshProjects("B") :
          projects = <<a, b>>

(* The backend answers every request, timers fire, release() settles, and  *)
(* the user goes on using the application.                                 *)
SpecReload ==
    /\ InitReload
    /\ [][NextUI]_vars
    /\ \A r \in RunIds : WF_vars(RunStep(r))
    /\ WF_vars(NextUI)

(* The editor open on a project at its outline step, with the reader's     *)
(* cover generation next to the run.                                       *)
InitCover ==
    /\ InitApp
    /\ wc = NoCall
    /\ activeProjectId = "A"
    /\ \E a \in FreshProjects("A") :
          projects = <<a, BookProject("B", "Untitled Manuscript", NoOutline, <<>>, 0)>>

NextCover ==
    \/ StartWriting(MaxCoverRuns)
    \/ \E t \in Titles : handleTitleBlur(t)
    \/ handleGenerateCover
    \/ GenerateCoverSettles(MaxCoverRuns)
    \/ \E r \in RunIds : RunStep(r)

SpecCover == InitCover /\ [][NextCover]_vars

(* The editor open on a project at its outline step: the outline is        *)
(* edited and regenerated next to a run.                                   *)
InitOutline ==
    /\ InitApp
    /\ wc = NoCall
    /\ activeProjectId = "A"
    /\ \E n \in 1 .. MaxOutline :
          projects =
            << [BookProject("A", GeneratedTitle, Outline(n), <<>>, 1)
                   EXCEPT !.sources = <<TextNote>>],
               BookProject("B", "Untitled Manuscript", NoOutline, <<>>, 0) >>

NextOutline ==
    \/ StartWriting(MaxOutlineRuns)
    \/ navigateStep(1, MaxOutlineRuns)
    \/ AddChapter(MaxOutlineRuns)
    \/ \E index \in 1 .. MaxOutline : DeleteChapter(index, MaxOutlineRuns)
    \/ \E index \in 1 .. MaxOutline : SaveChapter(index, "Edited", MaxOutlineRuns)
    \/ handleCreateOutline
    \/ CreateOutlineSettles(MaxOutlineRuns)
    \/ \E r \in RunIds : RunStep(r)

SpecOutline == InitOutline /\ [][NextOutline]_vars

(* The editor open on a project at its outline step: outline and cover     *)
(* generation (isProcessing, error) next to the auto-started runs.         *)
InitEditor ==
    /\ InitApp
    /\ wc = NoCall
    /\ activeProjectId = "A"
    /\ \E a \in FreshProjects("A") :
          projects =
            << [a EXCEPT !.sources = <<TextNote>>],
               BookProject("B", "Untitled Manuscript", NoOutline, <<>>, 0) >>

NextEditor ==
    \/ StartWriting(MaxEditorRuns)
    \/ navigateStep(1, MaxEditorRuns)
    \/ handleCreateOutline
    \/ CreateOutlineSettles(MaxEditorRuns)
    \/ handleGenerateCoverOutline
    \/ GenerateCoverOutlineSettles(MaxEditorRuns)
    \/ DismissError
    \/ \E r \in RunIds : RunStep(r)

SpecEditor == InitEditor /\ [][NextEditor]_vars

(* The editor open on a new project at its source step: audio files are    *)
(* uploaded and sources removed.  File reads and transcriptions settle.    *)
InitSources ==
    /\ InitApp
    /\ wc = NoCall
    /\ activeProjectId = "A"
    /\ \E sources \in {<<>>, <<TextNote>>} :
          projects =
            << [BookProject("A", "Untitled Manuscript", NoOutline, <<>>, 0)
                   EXCEPT !.sources = sources],
               BookProject("B", "Untitled Manuscript", NoOutline, <<>>, 0) >>

NextSources ==
    \/ \E u \in UploadIds : handleAudioUpload(u)
    \/ \E u \in UploadIds : FileReaderSettles(u)
    \/ \E u \in UploadIds : TranscriptionSettles(u)
    \/ \E id \in {0} \cup UploadIds : RemoveSource(id)
    \/ \E t \in Titles : handleTitleBlur(t)

SpecSources ==
    /\ InitSources
    /\ [][NextSources]_vars
    /\ \A u \in UploadIds : WF_vars(UploadStep(u))

(* The application with projects being deleted on the dashboard *)
NextDelete ==
    \/ \E p \in ProjectIds : handleSelectProject(p, MaxDeleteRuns)
    \/ handleBackToDashboard
    \/ StartWriting(MaxDeleteRuns)
    \/ \E p \in ProjectIds : handleDeleteProject(p)
    \/ \E r \in RunIds : RunStep(r)

SpecDelete == InitUI /\ [][NextDelete]_vars

(* writeChapter called on its own with every chapter number and style *)
InitWrite ==
    /\ InitApp
    /\ activeProjectId = NoId
    /\ projects = <<>>
    /\ \E n \in 1 .. MaxChapters, style \in WritingStyles :
          wc = writeChapter(n, style)

RequestSettles ==
    /\ wc.pc = "request"
    /\ \E res \in BackendResults("v1") : wc' = writeChapterSettle(wc, res)
    /\ UNCHANGED <<projects, activeProjectId, generatingProjectId, wakeLockRef,
                   sentinels, released, runs, cover, editor, uploads>>

TimerFires ==
    /\ wc.pc = "sleep"
    /\ wc' = writeChapterWake(wc)
    /\ UNCHANGED <<projects, activeProjectId, generatingProjectId, wakeLockRef,
                   sentinels, released, runs, cover, editor, uploads>>

NextWrite == RequestSettles \/ TimerFires

SpecWrite == InitWrite /\ [][NextWrite]_vars

----------------------------------------------------------------------------
(* Properties *)

Finished(run) == run.pc \in {"releasing", "done"}

(* The chapter results of a project as stored / as a run captured them *)
StoredChapters(ps, id) ==
    IF HasProject(ps, id) THEN FindProject(ps, id).chapters ELSE <<>>
Numbers(chapters) == {chapters[i].chapterNumber : i \in 1 .. Len(chapters)}
NoEntry == ChapterContent(0, "", "", FALSE)
Entry(chapters, n) ==
    IF n \in Numbers(chapters)
    THEN chapters[FindByNumber(chapters, n)]
    ELSE NoEntry

(* Done: a result with non-empty content that is not flagged isGenerating *)
IsDone(c) == c.content # "" /\ ~c.isGenerating
DoneNumbers(chapters) ==
    {chapters[i].chapterNumber : i \in {j \in 1 .. Len(chapters) : IsDone(chapters[j])}}
Dispatched(run) == {run.log[i].chapter : i \in 1 .. Len(run.log)}

(* r took a step: the record of a started run changed *)
Stepped(r) == runs[r].pc # "idle" /\ runs'[r] # runs[r]

(* C1 Resumability: a run never calls writeChapter for a chapter that was  *)
(* Done in the project it was started on, and no step of the run changes   *)
(* the stored content of such a chapter to anything but the content it had *)
(* at the start; the chapters it calls writeChapter for are not Done.      *)
C1_Resumability ==
    [][\A r \in RunIds :
        /\ Dispatched(runs'[r]) \cap DoneNumbers(runs'[r].project.chapters) = {}
        /\ Stepped(r) =>
             \A n \in DoneNumbers(runs[r].project.chapters) :
                LET before == StoredChapters(projects, runs[r].projectId)
                    after == StoredChapters(projects', runs[r].projectId)
                IN  n \in Numbers(before) =>
                      /\ n \in Numbers(after)
                      /\ \/ Entry(after, n).content = Entry(before, n).content
                         \/ Entry(after, n).content =
                                Entry(runs[r].project.chapters, n).content]_vars

(* C1 witness: a run started on a project with a Done and a not-Done       *)
(* chapter has ended; it called writeChapter for the second only and the   *)
(* first still has its content.                                            *)
C1_Witness ==
    \E r \in RunIds :
        /\ runs[r].pc = "done"
        /\ DoneNumbers(runs[r].project.chapters) = {1}
        /\ Dispatched(runs[r]) = {2}
        /\ Entry(StoredChapters(projects, runs[r].projectId), 1).content = PriorText
        /\ Entry(StoredChapters(projects, runs[r].projectId), 2).content = RunText(r)

(* The error classes the specification calls fatal: HTTP 401 or 403, a     *)
(* leaked / revoked credential, a permission-denied signal                 *)
SpecFatal(e) ==
    ~e.ok /\ (e.status \in {401, 403} \/ "leaked" \in e.msg
                \/ "PERMISSION_DENIED" \in e.msg)

(* The ended writeChapter calls of a run, as indices of its log *)
FatalCalls(run) ==
    {i \in 1 .. Len(run.log) : run.log[i].pc = "thrown" /\ SpecFatal(run.log[i].value)}
ExhaustedCalls(run) ==
    {i \in 1 .. Len(run.log) :
        run.log[i].pc = "thrown" /\ run.log[i].value = ExhaustedError}

OutlineNumbers(run) == Numbers(run.project.outline.chapters)
OutlineIndex(run, n) == FindByNumber(run.project.outline.chapters, n)
(* the outline chapters that come after chapter n in the loop *)
After(run, n) ==
    {m \in OutlineNumbers(run) : OutlineIndex(run, m) > OutlineIndex(run, n)}

(* C2 Fatal short-circuit: once writeChapter raised a fatal error on       *)
(* chapter k, the run calls writeChapter for no further chapter, is        *)
(* aborted, chapter k is stored not-generating with the content "Stopped   *)
(* due to API error.", and the chapters after k are stored as the run had  *)
(* them before the error.                                                  *)
C2_FatalShortCircuit ==
    \A r \in RunIds : \A i \in FatalCalls(runs[r]) :
        LET run == runs[r]
            k == run.log[i].chapter
            stored == StoredChapters(projects, run.projectId)
        IN  /\ i = Len(run.log)
            /\ run.hasFatalError
            /\ Finished(run)
            /\ k \in Numbers(stored)
            /\ Entry(stored, k).content = StoppedMsg
            /\ ~Entry(stored, k).isGenerating
            /\ \A m \in After(run, k) :
                  Entry(stored, m) = Entry(run.currentChapters, m)

(* C3 Transient isolation: once chapter k used up its 3 attempts with      *)
(* transient errors, chapter k is stored not-generating with the content   *)
(* "Generation failed. Please retry.", that failure does not abort the     *)
(* run, and a run that ends without a fatal error has called writeChapter  *)
(* for every later chapter that was not Done.                              *)
C3_TransientIsolation ==
    \A r \in RunIds : \A i \in ExhaustedCalls(runs[r]) :
        LET run == runs[r]
            k == run.log[i].chapter
            stored == StoredChapters(projects, run.projectId)
        IN  /\ k \in Numbers(stored)
            /\ Entry(stored, k).content = FailedMsg
            /\ ~Entry(stored, k).isGenerating
            /\ (i = Len(run.log) => ~run.hasFatalError)
            /\ (Finished(run) /\ ~run.hasFatalError) =>
                  \A m \in After(run, k) :
                     m \in Dispatched(run)
                        \/ m \in DoneNumbers(run.project.chapters)

(* The step in which run r stores the outcome of its writeChapter call *)
Persists(r) ==
    /\ runs[r].pc = "writing"
    /\ Len(runs[r].log) > 0
    /\ runs[r].log[Len(runs[r].log)].pc = "pending"
    /\ runs'[r].log[Len(runs[r].log)].pc # "pending"

StoredTitle(ps, id) == IF HasProject(ps, id) THEN FindProject(ps, id).title ELSE ""

(* C5 Merge safety: when the title of the project was changed between the  *)
(* dispatch of chapter k and the persist of its result, the project stored *)
(* by that persist has the changed title and chapter k's new content.      *)
C5_MergeSafety ==
    [][\A r \in RunIds :
        (Persists(r) /\ StoredTitle(projects, runs[r].projectId)
                            # runs[r].titleAtDispatch) =>
            LET id == runs[r].projectId
                ended == runs'[r].log[Len(runs[r].log)]
                after == StoredChapters(projects', id)
            IN  /\ StoredTitle(projects', id) = StoredTitle(projects, id)
                /\ ended.chapter \in Numbers(after)
                /\ ~Entry(after, ended.chapter).isGenerating
                /\ Entry(after, ended.chapter).content =
                      IF ended.pc = "returned" THEN ended.value.text
                      ELSE FailureContent(runs'[r].hasFatalError)]_vars

(* C6 Reconciliation: once a run has written its initial chapter list,     *)
(* and so before its first writeChapter call, the stored chapter results   *)
(* of the project have exactly the chapter numbers of the outline.         *)
C6_Reconciliation ==
    \A r \in RunIds :
        runs[r].pc \in {"writing", "releasing", "done"} =>
            Numbers(StoredChapters(projects, runs[r].projectId))
                = OutlineNumbers(runs[r])

(* The calls that the retry layer ended at once: it threw the backend's    *)
(* error itself, which it does for the errors it classifies as fatal       *)
RetryFatalCalls(run) ==
    {i \in 1 .. Len(run.log) :
        run.log[i].pc = "thrown" /\ run.log[i].value # ExhaustedError}

(* C7 Every fatal error class aborts the run: an error with status 401 or  *)
(* 403, or signalling a leaked credential or PERMISSION_DENIED, raised for *)
(* chapter k stops the run at k and is shown to the user in an alert; and  *)
(* what the retry layer treated as fatal, the pipeline treats as fatal.    *)
C7_FatalAborts ==
    \A r \in RunIds :
        /\ \A i \in FatalCalls(runs[r]) :
            /\ i = Len(runs[r].log)
            /\ runs[r].hasFatalError
            /\ runs[r].alerts >= 1
        /\ RetryFatalCalls(runs[r]) # {} => runs[r].hasFatalError

----------------------------------------------------------------------------
(* Properties of writeChapter (SpecWrite) *)

(* C4 Retry count: a call that returned after j transient failures made    *)
(* j + 1 backend requests and j sleeps, j <= 2, and returns the backend's  *)
(* text; no call makes more than 3 requests or 2 sleeps; a call that fails *)
(* for transient errors has made 3 requests and 2 sleeps, so none after    *)
(* the third failure.                                                      *)
C4_RetryCount ==
    /\ wc.requests <= 3 /\ wc.sleeps <= 2
    /\ wc.pc = "returned" =>
          /\ wc.attempt \in 0 .. 2
          /\ wc.requests = wc.attempt + 1
          /\ wc.sleeps = wc.attempt
          /\ wc.value \in {Response("v1"), Response("")}
    /\ wc.pc = "sleep" => wc.sleeps = wc.attempt /\ wc.requests = wc.attempt
    /\ (wc.pc = "thrown" /\ wc.value = ExhaustedError) =>
          wc.attempt = 3 /\ wc.requests = 3 /\ wc.sleeps = 2
    /\ wc.attempt = 3 => wc.pc = "thrown"

(* C4 witness: two transient failures, then the text *)
C4_Witness ==
    /\ wc.pc = "returned" /\ wc.attempt = 2
    /\ wc.requests = 3 /\ wc.sleeps = 2 /\ wc.value = Response("v1")

(* C8 Fatal errors are never retried: a fatal error of a backend request   *)
(* is never followed by a backoff sleep; the call ends with that error,    *)
(* having made no request and no sleep after the failed request, on the    *)
(* first attempt as on the later ones.                                     *)
C8_FatalNotRetried ==
    /\ wc.pc = "sleep" => ~SpecFatal(wc.value)
    /\ (wc.pc = "request" /\ wc.attempt > 0) => ~SpecFatal(wc.value)
    /\ (wc.pc = "thrown" /\ SpecFatal(wc.value)) =>
          wc.requests = wc.attempt + 1 /\ wc.sleeps = wc.attempt

(* C8 witness: a fatal error on the first attempt ended the call *)
C8_Witness ==
    /\ wc.pc = "thrown" /\ SpecFatal(wc.value)
    /\ wc.attempt = 0 /\ wc.requests = 1 /\ wc.sleeps = 0

----------------------------------------------------------------------------
(* Properties of the run guard (SpecUI) *)

(* C9 At most one run per project: no two invocations of                   *)
(* startBookGeneration are in their loop for the same project.             *)
C9_OneRunPerProject ==
    \A r1, r2 \in RunIds :
        (r1 # r2 /\ LoopActive(runs[r1]) /\ LoopActive(runs[r2])) =>
            runs[r1].projectId # runs[r2].projectId

(* C10 The run guard is per project: while a run for project P is in its   *)
(* loop the in-progress marker of P is set, whatever other runs start or   *)
(* end; when no run for P is in its loop the marker of P is clear.         *)
C10_GuardPerProject ==
    /\ \A r \in RunIds :
          LoopActive(runs[r]) => generatingProjectId = runs[r].projectId
    /\ generatingProjectId # NoId =>
          \E r \in RunIds : LoopActive(runs[r])
                              /\ runs[r].projectId = generatingProjectId

----------------------------------------------------------------------------
(* Properties of the wake lock *)

(* The runs that called release() on sentinel s *)
ReleaseCalls(s) == {r \in RunIds : runs[r].releasing = s}

(* C11 Wake-lock release exactly once per acquire: release() is called on  *)
(* the sentinel a run obtained exactly once, by that run when it ends      *)
(* (completed or aborted), never while that run is still in its loop; and  *)
(* when no run is in progress every sentinel handed out has been released. *)
C11_ReleaseOncePerAcquire ==
    /\ \A r \in RunIds :
          runs[r].sentinel # 0 =>
             /\ Cardinality(ReleaseCalls(runs[r].sentinel)) <= 1
             /\ Finished(runs[r]) => ReleaseCalls(runs[r].sentinel) = {r}
             /\ LoopActive(runs[r]) => ReleaseCalls(runs[r].sentinel) = {}
    /\ (\A r \in RunIds : ~LoopActive(runs[r])) =>
          \A s \in sentinels : ReleaseCalls(s) # {}

(* The chapters a run has to write: those of its outline that were not     *)
(* Done in the project it was started on                                   *)
ToWrite(run) == OutlineNumbers(run) \ DoneNumbers(run.project.chapters)

(* C12 Wake-lock acquisition is best-effort: whether or not the run was    *)
(* handed a sentinel, it calls writeChapter for chapters it has to write   *)
(* only, and for all of them when it ends without a fatal error; a run     *)
(* that was handed none calls release() on nothing and awaits no release.  *)
C12_WakeLockBestEffort ==
    \A r \in RunIds :
        runs[r].pc \in {"writing", "releasing", "done"} =>
            /\ Dispatched(runs[r]) \subseteq ToWrite(runs[r])
            /\ (Finished(runs[r]) /\ ~runs[r].hasFatalError) =>
                  Dispatched(runs[r]) = ToWrite(runs[r])
            /\ runs[r].sentinel = 0 =>
                  /\ runs[r].pc # "releasing"
                  /\ runs[r].releasing = 0

----------------------------------------------------------------------------
(* Properties of the chapter loop *)

(* The content the pipeline stores for an ended writeChapter call *)
Outcome(entry) ==
    IF entry.pc = "returned" THEN entry.value.text
    ELSE FailureContent(PipelineIsFatal(entry.value))

(* C13 Sequential ascending order: a run has at most one writeChapter call *)
(* in flight, the last it made; it calls writeChapter in strictly          *)
(* ascending chapter-number order; and when it makes a call, the outcome   *)
(* of each earlier call is stored in the project: that chapter has an      *)
(* entry, not generating, holding the text or the failure placeholder.     *)
C13_SequentialOrder ==
    \A r \in RunIds :
        LET log == runs[r].log
            stored == StoredChapters(projects, runs[r].projectId)
        IN  /\ \A i \in 1 .. Len(log) : log[i].pc = "pending" => i = Len(log)
            /\ \A i, j \in 1 .. Len(log) :
                  i < j => log[i].chapter < log[j].chapter
            /\ \A i \in 1 .. (Len(log) - 1) :
                  /\ log[i].chapter \in Numbers(stored)
                  /\ ~Entry(stored, log[i].chapter).isGenerating
                  /\ Entry(stored, log[i].chapter).content = Outcome(log[i])

(* The chapters holding one of the two failure placeholders *)
FailedNumbers(chapters) ==
    {chapters[i].chapterNumber :
        i \in {j \in 1 .. Len(chapters) :
                 /\ chapters[j].content \in {FailedMsg, StoppedMsg}
                 /\ ~chapters[j].isGenerating}}

(* C14 Failed chapters are retryable by re-running: a run that ends        *)
(* without a fatal error has called writeChapter for every outline chapter *)
(* that an earlier run had left with a failure placeholder.                *)
C14_FailedRetried ==
    \A r \in RunIds :
        (Finished(runs[r]) /\ ~runs[r].hasFatalError) =>
            (FailedNumbers(runs[r].project.chapters) \cap OutlineNumbers(runs[r]))
                \subseteq Dispatched(runs[r])

----------------------------------------------------------------------------
(* Properties of the reloaded application (SpecReload) *)

HasGenerating(p) ==
    \E i \in 1 .. Len(StoredChapters(projects, p)) :
        StoredChapters(projects, p)[i].isGenerating

(* C15 Interruption safety: no chapter stays in the generating state for   *)
(* ever, also when it was stored as generating by a run that was torn      *)
(* down: whenever a project has a chapter flagged as generating, a later   *)
(* state has none.                                                         *)
C15_InterruptionSafety ==
    \A p \in ProjectIds : HasGenerating(p) ~> ~HasGenerating(p)

(* C16 Fatal notification exactly once: a run that was aborted on a fatal  *)
(* error has called alert() exactly once, a run never calls it more than   *)
(* once, and a run in which no writeChapter call ended with a fatal error  *)
(* has not called it.                                                      *)
C16_FatalNotifiedOnce ==
    \A r \in RunIds :
        /\ runs[r].alerts <= 1
        /\ runs[r].hasFatalError => runs[r].alerts = 1
        /\ FatalCalls(runs[r]) = {} => runs[r].alerts = 0

(* C16 witness: a run was aborted by a fatal error on chapter 1 with       *)
(* chapter 2 still to write, and has ended with one alert                  *)
C16_Witness ==
    \E r \in RunIds :
        /\ Finished(runs[r])
        /\ runs[r].hasFatalError
        /\ runs[r].alerts = 1
        /\ {1, 2} \subseteq ToWrite(runs[r])
        /\ Dispatched(runs[r]) = {1}

(* The writeChapter calls of a run that ended with an error *)
ThrownCalls(run) == {i \in 1 .. Len(run.log) : run.log[i].pc = "thrown"}

(* C17 Chapter failures never escape the pipeline: whatever error a        *)
(* writeChapter call ended with, the failure is stored on its chapter (the *)
(* chapter has an entry, not generating, holding a failure placeholder),   *)
(* the run goes on to its end, and at its end the in-progress marker is    *)
(* cleared and release() is called on the sentinel the run was handed.     *)
C17_FailuresRecorded ==
    \A r \in RunIds :
        LET run == runs[r]
            stored == StoredChapters(projects, run.projectId)
        IN  /\ \A i \in ThrownCalls(run) :
                  /\ run.pc \in {"writing", "releasing", "done"}
                  /\ run.log[i].chapter \in Numbers(stored)
                  /\ ~Entry(stored, run.log[i].chapter).isGenerating
                  /\ Entry(stored, run.log[i].chapter).content
                        \in {FailedMsg, StoppedMsg}
            /\ Finished(run) =>
                  /\ generatingProjectId = NoId
                  /\ run.releasing = run.sentinel

----------------------------------------------------------------------------
(* Properties of the writes of the user interface (SpecCover, Spec) *)

(* C18 No lost update of chapter results: a step of the user interface (a  *)
(* title edit, the write of a generated cover), that is a step in which no *)
(* run acts, leaves every stored chapter that is Done as it is: still      *)
(* stored, with the same content, not generating.                          *)
C18_NoLostUpdate ==
    [][(\A r \in RunIds : ~Stepped(r)) =>
         \A p \in ProjectIds :
            \A n \in DoneNumbers(StoredChapters(projects, p)) :
               Entry(StoredChapters(projects', p), n)
                  = Entry(StoredChapters(projects, p), n)]_vars

(* A project without its chapter results *)
OtherFields(ps, id) ==
    IF HasProject(ps, id)
    THEN [FindProject(ps, id) EXCEPT !.chapters = <<>>]
    ELSE BookProject(NoId, "", NoOutline, <<>>, 0)

(* C19 The run-start persist is a merge: the step in which a run writes    *)
(* its initial chapter list changes nothing of the stored project but its  *)
(* chapters: title, outline and step are as they were stored before the    *)
(* write, also when they were edited after the run had captured the        *)
(* project.                                                                *)
C19_RunStartMerge ==
    [][\A r \in RunIds :
         (runs[r].pc = "wakelock" /\ runs'[r].pc # "wakelock") =>
            OtherFields(projects', runs[r].projectId)
               = OtherFields(projects, runs[r].projectId)]_vars

(* C20 Empty responses are transient failures and Done implies content: no *)
(* writeChapter call of a run ends as a success with an empty text, and no *)
(* stored chapter is marked as finished (not generating) with empty        *)
(* content.                                                                *)
C20_EmptyIsTransient ==
    /\ \A r \in RunIds : \A i \in 1 .. Len(runs[r].log) :
          runs[r].log[i].pc = "returned" => runs[r].log[i].value.text # ""
    /\ \A p \in ProjectIds :
          \A i \in 1 .. Len(StoredChapters(projects, p)) :
             StoredChapters(projects, p)[i].content = ""
                => StoredChapters(projects, p)[i].isGenerating

----------------------------------------------------------------------------
(* C22: backoff delays.  Whenever a writeChapter call starts a backoff     *)
(* sleep, it is after its first or its second failed attempt, the sleep    *)
(* lasts 2000 ms after the first and 4000 ms after the second, i.e.        *)
(* 1000 * 2^n ms after the n-th, and it is strictly longer than the        *)
(* previous sleep of the same call.                                        *)
C22_BackoffDelays ==
    [][ (wc'.pc = "sleep" /\ wc.pc # "sleep") =>
            /\ wc'.attempt \in {1, 2}
            /\ wc'.sleeps = wc'.attempt
            /\ wc'.attempt = 1 => wc'.sleepMs = 2000
            /\ wc'.attempt = 2 => wc'.sleepMs = 4000
            /\ wc'.sleepMs = BackoffBaseMs * Pow2(wc'.attempt)
            /\ wc.sleeps > 0 => wc'.sleepMs > wc.sleepMs ]_vars

(* The call sleeps for the second time, after a first sleep of 2000 ms *)
C22_Witness ==
    wc.pc = "sleep" /\ wc.sleeps = 2 /\ wc.sleepMs = 4000

----------------------------------------------------------------------------
(* C25: a chapter is marked generating before it is dispatched.  Whenever  *)
(* a writeChapter call for chapter k is in flight (at its backend request  *)
(* or in its backoff sleep), the stored chapter list of the run's project  *)
(* has an entry for chapter k and that entry is flagged isGenerating.      *)
C25_GeneratingBeforeDispatch ==
    \A r \in RunIds :
        (runs[r].pc = "writing" /\ runs[r].call.pc \in {"request", "sleep"}) =>
            LET stored == StoredChapters(projects, runs[r].projectId)
                k == runs[r].call.chapter
            IN  /\ k \in Numbers(stored)
                /\ Entry(stored, k).isGenerating

----------------------------------------------------------------------------
(* C28: no spinner without a run.  When a run has ended, completed or      *)
(* aborted on a fatal error, and no other run is in progress, no stored    *)
(* chapter of its project that belongs to the outline it iterated is       *)
(* flagged isGenerating.                                                   *)
C28_NoSpinnerWithoutRun ==
    \A r \in RunIds :
        (runs[r].pc = "done" /\ \A q \in RunIds : ~LoopActive(runs[q])) =>
            \A n \in OutlineNumbers(runs[r]) :
                ~Entry(StoredChapters(projects, runs[r].projectId), n).isGenerating

----------------------------------------------------------------------------
(* The step of run r that persists the outcome of chapter k leaves every   *)
(* other project and every chapter entry of its project with a number      *)
(* other than k as they were                                               *)
PersistFrame(r) ==
    LET id == runs[r].projectId
        k == runs[r].call.chapter
        before == StoredChapters(projects, id)
        after == StoredChapters(projects', id)
    IN  /\ Len(projects') = Len(projects)
        /\ \A i \in 1 .. Len(projects) :
              projects[i].id # id => projects'[i] = projects[i]
        /\ Len(after) = Len(before)
        /\ \A j \in 1 .. Len(before) :
              before[j].chapterNumber # k => after[j] = before[j]

(* C21 as stated: the write that records the outcome of chapter k for      *)
(* project P (success or failure) changes only the entry with              *)
(* chapterNumber k: every other chapter entry of P, every other field of   *)
(* P and every other project are unchanged.                                *)
C21_PersistFrameAllFields ==
    [][\A r \in RunIds :
         Persists(r) =>
            /\ PersistFrame(r)
            /\ OtherFields(projects', runs[r].projectId)
                  = OtherFields(projects, runs[r].projectId)]_vars

(* C21: frame of a per-chapter persist.  The write that records the        *)
(* outcome of chapter k for project P changes only the entry with          *)
(* chapterNumber k in P's chapter list and, when the outcome is a success, *)
(* P's lastModified: every other chapter entry of P, every other field of  *)
(* P and every other project are unchanged, and the write of a failure     *)
(* leaves lastModified unchanged too.                                      *)
C21_PersistFrame ==
    [][\A r \in RunIds :
         Persists(r) =>
            LET id == runs[r].projectId
                ended == runs'[r].log[Len(runs[r].log)]
            IN  /\ PersistFrame(r)
                /\ [OtherFields(projects', id) EXCEPT !.lastModified = 0]
                      = [OtherFields(projects, id) EXCEPT !.lastModified = 0]
                /\ ended.pc = "thrown" =>
                      OtherFields(projects', id) = OtherFields(projects, id)]_vars

(* A run wrote chapter 2 of a project whose chapter 1 had failed before:   *)
(* chapter 1 and the title are as they were, chapter 2 has the new text    *)
(* and the project the timestamp of the write.                             *)
C21_Witness ==
    \E r \in RunIds :
        LET p == FindProject(projects, "A") IN
        /\ runs[r].pc = "done"
        /\ runs[r].projectId = "A"
        /\ Dispatched(runs[r]) = {2}
        /\ runs[r].project.lastModified = 0
        /\ runs[r].project.title = "Untitled Manuscript"
        /\ p.title = "Untitled Manuscript"
        /\ p.lastModified = 1
        /\ Len(p.chapters) = 2
        /\ p.chapters[1] = ChapterContent(1, "T", FailedMsg, FALSE)
        /\ p.chapters[2] = ChapterContent(2, "T", RunText(r), FALSE)

----------------------------------------------------------------------------
(* C29: a deleted project is never resurrected.  A project that is not in  *)
(* the collection is not in it after any step, and a step of a run whose   *)
(* project was deleted (the write of the initial chapter list, of a        *)
(* written chapter, of a failed chapter) leaves the collection as it was.  *)
C29_NoResurrection ==
    [][ /\ \A p \in ProjectIds :
              ~HasProject(projects, p) => ~HasProject(projects', p)
        /\ \A r \in RunIds :
              (Stepped(r) /\ ~HasProject(projects, runs[r].projectId)) =>
                  projects' = projects ]_vars

(* Project A was deleted before its run made the writeChapter call for a   *)
(* chapter (the call found no stored title); the chapter was written and   *)
(* the run ended: the collection holds project B alone, as it was.         *)
C29_Witness ==
    \E r \in RunIds :
        /\ runs[r].pc = "done"
        /\ runs[r].projectId = "A"
        /\ Len(runs[r].log) > 0
        /\ runs[r].titleAtDispatch = ""
        /\ runs[r].log[Len(runs[r].log)].pc = "returned"
        /\ projects = <<EmptiedProject("B")>>

----------------------------------------------------------------------------
(* The outline of project A as stored *)
StoredOutline == FindProject(projects, "A").outline

(* C26: outline numbering stays dense.  After any sequence of addChapter,  *)
(* deleteChapter and saveChapter operations on an outline whose chapter    *)
(* numbers were 1..n in list order, the chapter numbers are unique and     *)
(* equal 1..m in list order, m being the number of chapters.               *)
C26_DenseNumbering ==
    LET chapters == StoredOutline.chapters
    IN  /\ \A i \in 1 .. Len(chapters) : chapters[i].chapterNumber = i
        /\ \A i, j \in 1 .. Len(chapters) :
              chapters[i].chapterNumber = chapters[j].chapterNumber => i = j

(* The chapters the outline started with were deleted and chapters were    *)
(* added and edited: an added chapter is chapter 1, an edited one is 2.    *)
C26_Witness ==
    /\ Len(StoredOutline.chapters) = 2
    /\ StoredOutline.chapters[1] = [chapterNumber |-> 1, title |-> "New Chapter"]
    /\ StoredOutline.chapters[2] = [chapterNumber |-> 2, title |-> "Edited"]

----------------------------------------------------------------------------
----------------------------------------------------------------------------
----------------------------------------------------------------------------
(* C23: run termination.  Every started run eventually leaves its loop     *)
(* and ends; the step in which it leaves the loop clears the in-progress   *)
(* marker, and when it has ended release() has been called on the wake     *)
(* lock it was granted; a run that has ended makes no further step (no     *)
(* writeChapter call, no chapter write).                                   *)
C23_RunTermination ==
    /\ \A r \in RunIds : (runs[r].pc # "idle") ~> (runs[r].pc = "done")
    /\ [][\A r \in RunIds :
            /\ (LoopActive(runs[r]) /\ Finished(runs'[r])) =>
                  generatingProjectId' = NoId
            /\ runs[r].pc = "done" => runs'[r] = runs[r]]_vars
    /\ [](\A r \in RunIds :
            (runs[r].pc = "done" /\ runs[r].sentinel # 0) =>
                ReleaseCalls(runs[r].sentinel) # {})

----------------------------------------------------------------------------
(* The sources of project A as stored *)
StoredSources(ps) == IF HasProject(ps, "A") THEN FindProject(ps, "A").sources ELSE <<>>
SourceIds(sources) == {sources[i].id : i \in 1 .. Len(sources)}
SourceById(sources, id) ==
    sources[CHOOSE i \in 1 .. Len(sources) : sources[i].id = id]

(* C30: source processing is isolated per source.  The step in which the   *)
(* transcription of an upload completes or fails leaves every other        *)
(* stored source in the list and as it was, and the source of the upload,  *)
(* if stored, with a transcription and isProcessing false; and once an     *)
(* upload has started, its source eventually is, and stays, not flagged    *)
(* isProcessing.                                                           *)
C30_SourceIsolation ==
    /\ [][\A u \in UploadIds :
            (uploads[u].pc = "transcribing" /\ uploads'[u].pc = "done") =>
                LET before == StoredSources(projects)
                    after == StoredSources(projects')
                IN  /\ \A id \in SourceIds(before) \ {u} :
                          /\ id \in SourceIds(after)
                          /\ SourceById(after, id) = SourceById(before, id)
                    /\ u \in SourceIds(before) =>
                          /\ u \in SourceIds(after)
                          /\ ~SourceById(after, u).isProcessing
                          /\ SourceById(after, u).transcription # ""]_vars
    /\ \A u \in UploadIds :
          (uploads[u].pc # "idle") ~>
              [](\A i \in 1 .. Len(StoredSources(projects)) :
                    StoredSources(projects)[i].id = u =>
                        ~StoredSources(projects)[i].isProcessing)

====
